---------------------------- MODULE Spec2Model ----------------------------
(***************************************************************************)
(* A model of see_sample_dataset.py: load a dataset split, take row 0,     *)
(* print it, and dump it as JSON into sample_trace_row.json.               *)
(*                                                                         *)
(* Text is a sequence of characters (one-character strings), so that the   *)
(* JSON encoder, the JSON parser and the file are modelled by what they do *)
(* to characters.  A Python value is a record                              *)
(*     [t |-> type, n |-> int, s |-> chars, keys |-> <<chars>>,            *)
(*      kids |-> <<values>>]                                               *)
(* where t is one of "str" "int" "float" "true" "false" "null" "list"      *)
(* "dict" "obj"; a float is held by its shortest repr in s; "obj" is any   *)
(* object json has no encoding for (datetime, bytes, ...).                 *)
(***************************************************************************)
EXTENDS Integers, Sequences, FiniteSets, TLC

VARIABLES pc, dataset, row, stdout, file, buf, handle, it, exc, exit,
          log, prior, prev

vars == <<pc, dataset, row, stdout, file, buf, handle, it, exc, exit,
          log, prior, prev>>

---------------------------------------------------------------------------
(* Python values *)

Blank == [t |-> "null", n |-> 0, s |-> <<>>, keys |-> <<>>, kids |-> <<>>]

PyNone == Blank

PyStr(cs) == [Blank EXCEPT !.t = "str", !.s = cs]

PyInt(i) == [Blank EXCEPT !.t = "int", !.n = i]

PyFloat(repr) == [Blank EXCEPT !.t = "float", !.s = repr]

PyBool(b) == [Blank EXCEPT !.t = IF b THEN "true" ELSE "false"]

PyList(vs) == [Blank EXCEPT !.t = "list", !.kids = vs]

PyDict(ks, vs) == [Blank EXCEPT !.t = "dict", !.keys = ks, !.kids = vs]

PyObj(repr) == [Blank EXCEPT !.t = "obj", !.s = repr]

NaNRepr == <<"n", "a", "n">>

InfRepr == <<"i", "n", "f">>

NegInfRepr == <<"-", "i", "n", "f">>

---------------------------------------------------------------------------
(* Text helpers *)

RECURSIVE Concat(_)
Concat(chunks) ==
    IF chunks = <<>> THEN <<>> ELSE Head(chunks) \o Concat(Tail(chunks))

Prefix(cs, n) == SubSeq(cs, 1, n)

IsPrefix(p, cs) == Len(p) <= Len(cs) /\ Prefix(cs, Len(p)) = p

IsProperPrefix(p, cs) == Len(p) < Len(cs) /\ Prefix(cs, Len(p)) = p

RECURSIVE Spaces(_)
Spaces(n) == IF n <= 0 THEN <<>> ELSE <<" ">> \o Spaces(n - 1)

DigitChars == <<"0", "1", "2", "3", "4", "5", "6", "7", "8", "9">>

RECURSIVE NatStr(_)
NatStr(n) ==
    IF n < 10 THEN <<DigitChars[n + 1]>>
    ELSE NatStr(n \div 10) \o <<DigitChars[(n % 10) + 1]>>

\* int.__repr__
IntStr(i) == IF i < 0 THEN <<"-">> \o NatStr(-i) ELSE NatStr(i)

---------------------------------------------------------------------------
(* json.dump(row, f, ensure_ascii=False, indent=2): the arguments *)

\* a faulty variant: ensure_ascii left at its default
EnsureAsciiDefault == TRUE

EnsureAscii == FALSE

Indent == 2

\* JSONEncoder.__init__: with indent given and no separators, ',' and ': '
ItemSeparator == <<",">>

KeySeparator == <<":", " ">>

NonAscii == {"é"}

\* the \uXXXX escape of a character outside ASCII
UEscape(c) == <<"\\", "u", "0", "0", "e", "9">>

\* json.encoder ESCAPE_DCT, and ESCAPE_ASCII for ensure_ascii=True
EscapeChar(c, ensureAscii) ==
    CASE c = "\"" -> <<"\\", "\"">>
      [] c = "\\" -> <<"\\", "\\">>
      [] c = "\n" -> <<"\\", "n">>
      [] c = "\t" -> <<"\\", "t">>
      [] c \in NonAscii /\ ensureAscii -> UEscape(c)
      [] OTHER -> <<c>>

RECURSIVE EscapeAll(_, _)
EscapeAll(cs, ensureAscii) ==
    IF cs = <<>> THEN <<>>
    ELSE EscapeChar(Head(cs), ensureAscii) \o EscapeAll(Tail(cs), ensureAscii)

\* py_encode_basestring / py_encode_basestring_ascii
EncodeStr(cs) == <<"\"">> \o EscapeAll(cs, EnsureAscii) \o <<"\"">>

\* JSONEncoder.iterencode floatstr, allow_nan=True (the default)
FloatStr(repr) ==
    CASE repr = NaNRepr -> <<"N", "a", "N">>
      [] repr = InfRepr -> <<"I", "n", "f", "i", "n", "i", "t", "y">>
      [] repr = NegInfRepr -> <<"-", "I", "n", "f", "i", "n", "i", "t", "y">>
      [] OTHER -> repr

NewlineIndent(level) == <<"\n">> \o Spaces(Indent * level)

\* The result of running an encoder generator to its end: the chunks it
\* yielded, and whether it returned (ok) or raised TypeError.
Yielded(chunks) == [chunks |-> chunks, ok |-> TRUE]

Raised(chunks) == [chunks |-> chunks, ok |-> FALSE]

Then(a, b) == IF a.ok THEN [chunks |-> a.chunks \o b.chunks, ok |-> b.ok] ELSE a

IsScalar(v) == v.t \in {"str", "int", "float", "true", "false", "null"}

ScalarStr(v) ==
    CASE v.t = "str" -> EncodeStr(v.s)
      [] v.t = "int" -> IntStr(v.n)
      [] v.t = "float" -> FloatStr(v.s)
      [] v.t = "true" -> <<"t", "r", "u", "e">>
      [] v.t = "false" -> <<"f", "a", "l", "s", "e">>
      [] v.t = "null" -> <<"n", "u", "l", "l">>

RECURSIVE IterEncode(_, _)
RECURSIVE IterEncodeListItems(_, _, _)
RECURSIVE IterEncodeDictItems(_, _, _, _)

\* _make_iterencode._iterencode_list: the items from index i on
IterEncodeListItems(vs, i, level) ==
    IF i > Len(vs) THEN
        Yielded(<<NewlineIndent(level - 1), <<"]">> >>)
    ELSE
        LET lead == IF i = 1 THEN <<"[">> \o NewlineIndent(level)
                    ELSE ItemSeparator \o NewlineIndent(level)
            item == IF IsScalar(vs[i]) THEN Yielded(<<lead \o ScalarStr(vs[i])>>)
                    ELSE Then(Yielded(<<lead>>), IterEncode(vs[i], level))
        IN  Then(item, IterEncodeListItems(vs, i + 1, level))

\* _make_iterencode._iterencode_dict: the items from index i on
IterEncodeDictItems(ks, vs, i, level) ==
    IF i > Len(ks) THEN
        Yielded(<<NewlineIndent(level - 1), <<"}">> >>)
    ELSE
        LET lead == IF i = 1 THEN <<>> ELSE <<ItemSeparator \o NewlineIndent(level)>>
            key == Yielded(lead \o <<EncodeStr(ks[i]), KeySeparator>>)
            val == IF IsScalar(vs[i]) THEN Yielded(<<ScalarStr(vs[i])>>)
                   ELSE IterEncode(vs[i], level)
        IN  Then(Then(key, val), IterEncodeDictItems(ks, vs, i + 1, level))

\* _make_iterencode._iterencode
IterEncode(v, level) ==
    CASE IsScalar(v) -> Yielded(<<ScalarStr(v)>>)
      [] v.t = "list" ->
            IF v.kids = <<>> THEN Yielded(<< <<"[", "]">> >>)
            ELSE IterEncodeListItems(v.kids, 1, level + 1)
      [] v.t = "dict" ->
            IF v.keys = <<>> THEN Yielded(<< <<"{", "}">> >>)
            ELSE Then(Yielded(<< <<"{">>, NewlineIndent(level + 1) >>),
                      IterEncodeDictItems(v.keys, v.kids, 1, level + 1))
      [] v.t = "obj" -> Raised(<<>>)

\* the text json.dumps would return, when the encoder does not raise
JsonText(v) == Concat(IterEncode(v, 0).chunks)

---------------------------------------------------------------------------
(* Reading the file back, for the properties that speak of the file's      *)
(* parsed contents: json.load, character by character.  With strict = TRUE *)
(* the grammar is RFC 8259's; with strict = FALSE it is Python's, which    *)
(* also reads NaN, Infinity and -Infinity.                                 *)

Fail == [ok |-> FALSE, val |-> Blank, pos |-> 0]

Got(v, i) == [ok |-> TRUE, val |-> v, pos |-> i]

At(txt, i) == IF i >= 1 /\ i <= Len(txt) THEN txt[i] ELSE ""

Matches(txt, i, lit) ==
    i + Len(lit) - 1 <= Len(txt) /\ SubSeq(txt, i, i + Len(lit) - 1) = lit

Whitespace == {" ", "\n", "\t", "\r"}

ControlChars == {"\n", "\t", "\r"}

RECURSIVE SkipWs(_, _)
SkipWs(txt, i) == IF At(txt, i) \in Whitespace THEN SkipWs(txt, i + 1) ELSE i

IsDigit(c) == \E d \in 1..10 : DigitChars[d] = c

DigitVal(c) == CHOOSE d \in 0..9 : DigitChars[d + 1] = c

RECURSIVE DigitsEnd(_, _)
DigitsEnd(txt, i) == IF IsDigit(At(txt, i)) THEN DigitsEnd(txt, i + 1) ELSE i

RECURSIVE NatVal(_)
NatVal(cs) ==
    IF cs = <<>> THEN 0
    ELSE NatVal(SubSeq(cs, 1, Len(cs) - 1)) * 10 + DigitVal(cs[Len(cs)])

\* json.scanner NUMBER_RE: -?(0|[1-9]\d*)(\.\d+)? ; int(...) or float(...)
ParseNumber(txt, i) ==
    LET j == IF At(txt, i) = "-" THEN i + 1 ELSE i
        k == IF At(txt, j) = "0" THEN j + 1 ELSE DigitsEnd(txt, j)
        f == IF At(txt, k) = "." THEN DigitsEnd(txt, k + 1) ELSE k
    IN  IF k = j THEN Fail
        ELSE IF f > k + 1 THEN Got(PyFloat(SubSeq(txt, i, f - 1)), f)
        ELSE Got(PyInt(IF j > i THEN 0 - NatVal(SubSeq(txt, j, k - 1))
                       ELSE NatVal(SubSeq(txt, j, k - 1))), k)

\* json.decoder BACKSLASH
Unescape(c) ==
    CASE c = "\"" -> "\""
      [] c = "\\" -> "\\"
      [] c = "/" -> "/"
      [] c = "n" -> "\n"
      [] c = "t" -> "\t"
      [] c = "r" -> "\r"
      [] OTHER -> ""

\* json.decoder py_scanstring, strict=True: i is just after the opening quote
RECURSIVE ScanString(_, _, _)
ScanString(txt, i, acc) ==
    LET c == At(txt, i)
    IN  CASE c = "" -> Fail
          [] c = "\"" -> Got(PyStr(acc), i + 1)
          [] c \in ControlChars -> Fail
          [] c = "\\" ->
                IF At(txt, i + 1) = "u" THEN
                    IF \E n \in NonAscii : Matches(txt, i, UEscape(n)) THEN
                        ScanString(txt, i + 6,
                            Append(acc, CHOOSE n \in NonAscii :
                                            Matches(txt, i, UEscape(n))))
                    ELSE Fail
                ELSE IF Unescape(At(txt, i + 1)) = "" THEN Fail
                ELSE ScanString(txt, i + 2, Append(acc, Unescape(At(txt, i + 1))))
          [] OTHER -> ScanString(txt, i + 1, Append(acc, c))

RECURSIVE ParseValue(_, _, _)
RECURSIVE ParseElements(_, _, _, _)
RECURSIVE ParseMembers(_, _, _, _, _)

\* json.decoder JSONArray: i is where the next element starts
ParseElements(txt, i, vs, strict) ==
    LET v == ParseValue(txt, i, strict)
        j == SkipWs(txt, v.pos)
    IN  IF ~v.ok THEN Fail
        ELSE IF At(txt, j) = "]" THEN Got(PyList(Append(vs, v.val)), j + 1)
        ELSE IF At(txt, j) = "," THEN
            ParseElements(txt, SkipWs(txt, j + 1), Append(vs, v.val), strict)
        ELSE Fail

\* json.decoder JSONObject: i is where the next key's quote is expected
ParseMembers(txt, i, ks, vs, strict) ==
    IF At(txt, i) # "\"" THEN Fail
    ELSE
        LET k == ScanString(txt, i + 1, <<>>)
            c == SkipWs(txt, k.pos)
            v == ParseValue(txt, SkipWs(txt, c + 1), strict)
            j == SkipWs(txt, v.pos)
        IN  IF ~k.ok \/ At(txt, c) # ":" THEN Fail
            ELSE IF ~v.ok THEN Fail
            ELSE IF At(txt, j) = "}" THEN
                Got(PyDict(Append(ks, k.val.s), Append(vs, v.val)), j + 1)
            ELSE IF At(txt, j) = "," THEN
                ParseMembers(txt, SkipWs(txt, j + 1), Append(ks, k.val.s),
                             Append(vs, v.val), strict)
            ELSE Fail

\* json.scanner py_make_scanner._scan_once
ParseValue(txt, i, strict) ==
    LET c == At(txt, i)
    IN  CASE c = "\"" -> ScanString(txt, i + 1, <<>>)
          [] c = "{" ->
                IF At(txt, SkipWs(txt, i + 1)) = "}"
                THEN Got(PyDict(<<>>, <<>>), SkipWs(txt, i + 1) + 1)
                ELSE ParseMembers(txt, SkipWs(txt, i + 1), <<>>, <<>>, strict)
          [] c = "[" ->
                IF At(txt, SkipWs(txt, i + 1)) = "]"
                THEN Got(PyList(<<>>), SkipWs(txt, i + 1) + 1)
                ELSE ParseElements(txt, SkipWs(txt, i + 1), <<>>, strict)
          [] c = "n" /\ Matches(txt, i, <<"n", "u", "l", "l">>) ->
                Got(PyNone, i + 4)
          [] c = "t" /\ Matches(txt, i, <<"t", "r", "u", "e">>) ->
                Got(PyBool(TRUE), i + 4)
          [] c = "f" /\ Matches(txt, i, <<"f", "a", "l", "s", "e">>) ->
                Got(PyBool(FALSE), i + 5)
          [] IsDigit(c) \/ (c = "-" /\ IsDigit(At(txt, i + 1))) ->
                ParseNumber(txt, i)
          [] ~strict /\ c = "N" /\ Matches(txt, i, FloatStr(NaNRepr)) ->
                Got(PyFloat(NaNRepr), i + 3)
          [] ~strict /\ c = "I" /\ Matches(txt, i, FloatStr(InfRepr)) ->
                Got(PyFloat(InfRepr), i + 8)
          [] ~strict /\ c = "-" /\ Matches(txt, i, FloatStr(NegInfRepr)) ->
                Got(PyFloat(NegInfRepr), i + 9)
          [] OTHER -> Fail

\* JSONDecoder.decode: one value, whitespace around it, nothing after it
Decode(txt, strict) ==
    LET v == ParseValue(txt, SkipWs(txt, 1), strict)
    IN  IF v.ok /\ SkipWs(txt, v.pos) = Len(txt) + 1 THEN v ELSE Fail

\* the text is a JSON document (RFC 8259)
ValidJson(txt) == Decode(txt, TRUE).ok

\* json.load of the text, as Python reads it
JsonLoad(txt) == Decode(txt, FALSE)

\* Python's == on values: nan equals nothing, dicts compare by key
RECURSIVE DeepEqual(_, _)
DeepEqual(a, b) ==
    /\ a.t = b.t
    /\ CASE a.t = "float" -> a.s = b.s /\ a.s # NaNRepr
         [] a.t = "list" ->
                /\ Len(a.kids) = Len(b.kids)
                /\ \A i \in 1..Len(a.kids) : DeepEqual(a.kids[i], b.kids[i])
         [] a.t = "dict" ->
                /\ Len(a.keys) = Len(b.keys)
                /\ \A i \in 1..Len(a.keys) :
                      \E j \in 1..Len(b.keys) :
                          b.keys[j] = a.keys[i] /\ DeepEqual(a.kids[i], b.kids[j])
         [] OTHER -> a = b

---------------------------------------------------------------------------
(* print(row): str(row) and a newline.  repr of the built-in types.        *)

ReprEscape(c) ==
    CASE c = "'" -> <<"\\", "'">>
      [] c = "\\" -> <<"\\", "\\">>
      [] c = "\n" -> <<"\\", "n">>
      [] c = "\t" -> <<"\\", "t">>
      [] OTHER -> <<c>>

RECURSIVE ReprChars(_)
ReprChars(cs) ==
    IF cs = <<>> THEN <<>> ELSE ReprEscape(Head(cs)) \o ReprChars(Tail(cs))

\* str.__repr__ for a string without a single quote in it
StrRepr(cs) == <<"'">> \o ReprChars(cs) \o <<"'">>

RECURSIVE PyRepr(_)
RECURSIVE ReprItems(_, _, _)

\* the items of a list (ks = <<>>) or of a dict, from index i on
ReprItems(ks, vs, i) ==
    IF i > Len(vs) THEN <<>>
    ELSE (IF i = 1 THEN <<>> ELSE <<",", " ">>)
         \o (IF ks = <<>> THEN <<>> ELSE StrRepr(ks[i]) \o <<":", " ">>)
         \o PyRepr(vs[i]) \o ReprItems(ks, vs, i + 1)

PyRepr(v) ==
    CASE v.t = "str" -> StrRepr(v.s)
      [] v.t = "int" -> IntStr(v.n)
      [] v.t = "float" -> v.s
      [] v.t = "true" -> <<"T", "r", "u", "e">>
      [] v.t = "false" -> <<"F", "a", "l", "s", "e">>
      [] v.t = "null" -> <<"N", "o", "n", "e">>
      [] v.t = "list" -> <<"[">> \o ReprItems(<<>>, v.kids, 1) \o <<"]">>
      [] v.t = "dict" -> <<"{">> \o ReprItems(v.keys, v.kids, 1) \o <<"}">>
      [] v.t = "obj" -> v.s

---------------------------------------------------------------------------
(* What the loader may return *)

MaxRows == 2

Id == <<"i", "d">>

Text == <<"t", "e", "x", "t">>

Hello == <<"h", "e", "l", "l", "o">>

\* an object json cannot encode, e.g. a datetime of a timestamp column
Stamp == PyObj(<<"<", "t", "s", ">">>)

RowHello == PyDict(<<Id, Text>>, <<PyInt(1), PyStr(Hello)>>)

RowEmpty == PyDict(<<>>, <<>>)

RowUnicode == PyDict(<<Text>>, <<PyStr(<<"é", "\"", "\\", "\n">>)>>)

RowNested ==
    PyDict(<<Id, Text>>,
           << PyInt(-12),
              PyList(<<PyNone, PyDict(<<Id>>, <<PyFloat(<<"0", ".", "5">>)>>)>>) >>)

RowStampFirst == PyDict(<<Text>>, <<Stamp>>)

RowStampLate == PyDict(<<Id, Text>>, <<PyBool(FALSE), PyList(<<PyInt(7), Stamp>>)>>)

RowNaN == PyDict(<<Id>>, <<PyFloat(NaNRepr)>>)

RowInf ==
    PyDict(<<Text, Id>>,
           <<PyBool(TRUE), PyList(<<PyList(<<>>), PyFloat(NegInfRepr)>>)>>)

Rows == {RowHello, RowEmpty, RowUnicode, RowNested, RowStampFirst,
         RowStampLate, RowNaN, RowInf}

RECURSIVE Repeat(_, _)
Repeat(r, n) == IF n <= 0 THEN <<>> ELSE <<r>> \o Repeat(r, n - 1)

\* the collections the loader may return: empty, or a first row followed
\* by further rows
Datasets ==
    {<<>>} \cup
    { <<r>> \o Repeat(RowUnicode, n) : r \in Rows, n \in 0..(MaxRows - 1) }

\* load_dataset(...) returns a collection or raises
Responses ==
    {[ok |-> FALSE, rows |-> <<>>]} \cup {[ok |-> TRUE, rows |-> d] : d \in Datasets}

---------------------------------------------------------------------------
(* The file sample_trace_row.json *)

Missing == [exists |-> FALSE, text |-> <<>>]

OnDisk(cs) == [exists |-> TRUE, text |-> cs]

\* what may be there before the first run: nothing, an empty file, some
\* other text, the output of an earlier run, or a torn one
InitialFiles ==
    {Missing, OnDisk(<<>>), OnDisk(<<"o", "l", "d">>),
     OnDisk(JsonText(RowHello)), OnDisk(Prefix(JsonText(RowHello), 9))}

\* how much f buffers before the io layer writes it out (scaled down from
\* io.DEFAULT_BUFFER_SIZE so that a record can outgrow it)
BufferSize == 16

NoGenerator == [todo |-> <<>>, ok |-> TRUE]

NoPrev == [ok |-> FALSE, rows |-> <<>>, file |-> Missing]

Steps == <<"load", "index", "print", "open", "dump", "close">>

---------------------------------------------------------------------------
(* The script, one action per statement *)

Init ==
    /\ pc = "load"
    /\ dataset = <<>>
    /\ row = PyNone
    /\ stdout = <<>>
    /\ file \in InitialFiles
    /\ buf = <<>>
    /\ handle = "none"
    /\ it = NoGenerator
    /\ exc = "none"
    /\ exit = -1
    /\ log = <<>>
    /\ prior = file
    /\ prev = NoPrev

\* an exception nobody handles: the traceback is printed, the status is 1
Die(e) ==
    /\ exc' = e
    /\ pc' = "failed"
    /\ exit' = 1

\* a faulty variant: the output file is opened before the dataset is loaded
LoadAfterOpen ==
    /\ pc = "load"
    /\ log' = Append(log, "load")
    /\ file' = OnDisk(<<>>)
    /\ \E resp \in Responses :
          IF resp.ok
          THEN /\ dataset' = resp.rows
               /\ pc' = "index"
               /\ UNCHANGED <<exc, exit>>
          ELSE /\ Die("LoaderError")
               /\ UNCHANGED dataset
    /\ UNCHANGED <<row, stdout, buf, handle, it, prior, prev>>

\* dataset = load_dataset(..., split="train")
Load ==
    /\ pc = "load"
    /\ log' = Append(log, "load")
    /\ \E resp \in Responses :
          IF resp.ok
          THEN /\ dataset' = resp.rows
               /\ pc' = "index"
               /\ UNCHANGED <<exc, exit>>
          ELSE /\ Die("LoaderError")
               /\ UNCHANGED dataset
    /\ UNCHANGED <<row, stdout, file, buf, handle, it, prior, prev>>

\* a faulty variant: an empty collection gives None instead of raising
IndexOrNone ==
    /\ pc = "index"
    /\ log' = Append(log, "index")
    /\ row' = IF Len(dataset) = 0 THEN PyNone ELSE dataset[1]
    /\ pc' = "print"
    /\ UNCHANGED <<dataset, stdout, file, buf, handle, it, exc, exit, prior, prev>>

\* row = dataset[0]
Index ==
    /\ pc = "index"
    /\ log' = Append(log, "index")
    /\ IF Len(dataset) = 0
       THEN /\ Die("IndexError")
            /\ UNCHANGED row
       ELSE /\ row' = dataset[1]
            /\ pc' = "print"
            /\ UNCHANGED <<exc, exit>>
    /\ UNCHANGED <<dataset, stdout, file, buf, handle, it, prior, prev>>

\* a faulty variant: a failure of print is caught and the script goes on
PrintRowGuarded ==
    /\ pc = "print"
    /\ log' = Append(log, "print")
    /\ pc' = "open"
    /\ \/ stdout' = stdout \o PyRepr(row) \o <<"\n">>
       \/ UNCHANGED stdout
    /\ UNCHANGED <<dataset, row, file, buf, handle, it, exc, exit, prior, prev>>

\* print(row); writing to standard output may fail (closed pipe, encoding)
PrintRow ==
    /\ pc = "print"
    /\ log' = Append(log, "print")
    /\ \/ /\ stdout' = stdout \o PyRepr(row) \o <<"\n">>
          /\ pc' = "open"
          /\ UNCHANGED <<exc, exit>>
       \/ /\ Die("StdoutError")
          /\ UNCHANGED stdout
    /\ UNCHANGED <<dataset, row, file, buf, handle, it, prior, prev>>

\* a faulty variant: the file is opened with mode 'a'
OpenFileAppend ==
    /\ pc = "open"
    /\ log' = Append(log, "open")
    /\ \/ /\ file' = OnDisk(file.text)
          /\ handle' = "open"
          /\ pc' = "dump"
          /\ UNCHANGED <<exc, exit>>
       \/ /\ Die("OSError")
          /\ UNCHANGED <<file, handle>>
    /\ UNCHANGED <<dataset, row, stdout, buf, it, prior, prev>>

\* open('sample_trace_row.json', 'w', encoding='utf-8'): creates the file or
\* truncates it, or raises OSError and leaves it alone
OpenFile ==
    /\ pc = "open"
    /\ log' = Append(log, "open")
    /\ \/ /\ file' = OnDisk(<<>>)
          /\ handle' = "open"
          /\ pc' = "dump"
          /\ UNCHANGED <<exc, exit>>
       \/ /\ Die("OSError")
          /\ UNCHANGED <<file, handle>>
    /\ UNCHANGED <<dataset, row, stdout, buf, it, prior, prev>>

\* a faulty variant: the last row is dumped, not the one that was printed
JsonDumpLast ==
    /\ pc = "dump"
    /\ log' = Append(log, "dump")
    /\ it' = [todo |-> IterEncode(dataset[Len(dataset)], 0).chunks,
              ok |-> IterEncode(dataset[Len(dataset)], 0).ok]
    /\ pc' = "write"
    /\ UNCHANGED <<dataset, row, stdout, file, buf, handle, exc, exit, prior, prev>>

\* json.dump(row, f, ensure_ascii=False, indent=2): the call makes the
\* encoder's generator; nothing is encoded yet
JsonDump ==
    /\ pc = "dump"
    /\ log' = Append(log, "dump")
    /\ it' = [todo |-> IterEncode(row, 0).chunks, ok |-> IterEncode(row, 0).ok]
    /\ pc' = "write"
    /\ UNCHANGED <<dataset, row, stdout, file, buf, handle, exc, exit, prior, prev>>

\* json.dump's loop, "for chunk in iterable: fp.write(chunk)": the next
\* chunk goes to f's buffer, which the io layer writes out once it holds
\* more than BufferSize; that write may fail having written only part of
\* the buffer, the rest staying buffered.  When the generator ends the loop
\* ends, and when it raises TypeError so does json.dump.
WriteChunk ==
    /\ pc = "write"
    /\ IF it.todo = <<>>
       THEN /\ exc' = IF it.ok THEN exc ELSE "TypeError"
            /\ pc' = "close"
            /\ UNCHANGED <<it, buf, file>>
       ELSE LET written == buf \o Head(it.todo)
            IN  /\ it' = [it EXCEPT !.todo = Tail(it.todo)]
                /\ IF Len(written) <= BufferSize
                   THEN /\ buf' = written
                        /\ UNCHANGED <<file, exc, pc>>
                   ELSE \/ /\ file' = OnDisk(file.text \o written)
                           /\ buf' = <<>>
                           /\ UNCHANGED <<exc, pc>>
                        \/ \E n \in 0..(Len(written) - 1) :
                              /\ file' = OnDisk(file.text \o Prefix(written, n))
                              /\ buf' = SubSeq(written, n + 1, Len(written))
                              /\ exc' = "OSError"
                              /\ pc' = "close"
    /\ UNCHANGED <<dataset, row, stdout, handle, exit, log, prior, prev>>

\* a faulty variant: no with block: f.close() follows json.dump and is skipped when
\* json.dump raises
WithExitNoFinally ==
    /\ pc = "close"
    /\ log' = Append(log, "close")
    /\ IF exc = "none"
       THEN /\ handle' = "closed"
            /\ buf' = <<>>
            /\ \/ /\ file' = OnDisk(file.text \o buf)
                  /\ pc' = "done" /\ exit' = 0 /\ UNCHANGED exc
               \/ \E n \in 0..Len(buf) :
                     /\ file' = OnDisk(file.text \o Prefix(buf, n))
                     /\ Die("OSError")
       ELSE /\ Die(exc)
            /\ UNCHANGED <<handle, buf, file>>
    /\ UNCHANGED <<dataset, row, stdout, it, prior, prev>>

\* a faulty variant: the text goes to a temporary file that replaces the output only
\* on success: a failed dump puts the earlier content back
WithExitRollback ==
    /\ pc = "close"
    /\ log' = Append(log, "close")
    /\ handle' = "closed"
    /\ buf' = <<>>
    /\ \/ /\ exc = "none"
          /\ file' = OnDisk(file.text \o buf)
          /\ pc' = "done" /\ exit' = 0 /\ UNCHANGED exc
       \/ /\ file' = prior
          /\ Die(IF exc = "none" THEN "OSError" ELSE exc)
    /\ UNCHANGED <<dataset, row, stdout, it, prior, prev>>

\* leaving the with block, by return or by exception: f.close() flushes
\* what is buffered and releases the handle even when the flush fails; an
\* exception from the block or from close() ends the process
WithExit ==
    /\ pc = "close"
    /\ log' = Append(log, "close")
    /\ handle' = "closed"
    /\ buf' = <<>>
    /\ \/ /\ file' = OnDisk(file.text \o buf)
          /\ IF exc = "none"
             THEN pc' = "done" /\ exit' = 0 /\ UNCHANGED exc
             ELSE Die(exc)
       \/ \E n \in 0..Len(buf) :
             /\ file' = OnDisk(file.text \o Prefix(buf, n))
             /\ Die("OSError")
    /\ UNCHANGED <<dataset, row, stdout, it, prior, prev>>

\* the script is run again: a new process, the same working directory
Rerun ==
    /\ pc \in {"done", "failed"}
    /\ pc' = "load"
    /\ dataset' = <<>>
    /\ row' = PyNone
    /\ stdout' = <<>>
    /\ buf' = <<>>
    /\ handle' = "none"
    /\ it' = NoGenerator
    /\ exc' = "none"
    /\ exit' = -1
    /\ log' = <<>>
    /\ prior' = file
    /\ prev' = [ok |-> exit = 0, rows |-> IF exit = 0 THEN dataset ELSE <<>>,
                file |-> IF exit = 0 THEN file ELSE Missing]
    /\ UNCHANGED file

\* one invocation
Next ==
    \/ Load
    \/ Index
    \/ PrintRow
    \/ OpenFile
    \/ JsonDump
    \/ WriteChunk
    \/ WithExit

Spec == Init /\ [][Next]_vars

\* any number of invocations, one after the other
NextRerun ==
    \/ Next
    \/ Rerun

SpecRerun == Init /\ [][NextRerun]_vars

---------------------------------------------------------------------------
(* Properties *)

Done == pc = "done"

Failed == pc = "failed"

\* what the encoder yields for the row, up to where it ends or raises
Yield == Concat(IterEncode(row, 0).chunks)

\* a value JSON has a form for: no foreign object, and no float that is
\* not a finite number
RECURSIVE HasJsonForm(_)
HasJsonForm(v) ==
    CASE v.t = "obj" -> FALSE
      [] v.t = "float" -> v.s \notin {NaNRepr, InfRepr, NegInfRepr}
      [] v.t \in {"list", "dict"} -> \A i \in 1..Len(v.kids) : HasJsonForm(v.kids[i])
      [] OTHER -> TRUE

\* C1: after every successful run the file exists, is a JSON document, and
\* reads back as a value deeply equal to the first record of the collection.
C1_RoundTrip ==
    Done =>
        /\ file.exists
        /\ ValidJson(file.text)
        /\ JsonLoad(file.text).ok
        /\ DeepEqual(JsonLoad(file.text).val, dataset[1])

\* C2: when the loader returns an empty collection the script stops at the
\* index-0 access with a failure: the file is neither opened, created nor
\* truncated, and nothing is printed.
C2_EmptyCollectionFails ==
    (pc # "load" /\ exc # "LoaderError" /\ dataset = <<>>) =>
        /\ pc = "index" \/ (Failed /\ exc = "IndexError" /\ exit = 1)
        /\ file = prior
        /\ handle = "none"
        /\ stdout = <<>>

C2_Witness == Failed /\ exc = "IndexError" /\ prior.exists /\ prior.text # <<>>

\* C3: when the loader call fails the process fails before any write: the
\* file an earlier run left keeps exactly its content, a missing file stays
\* missing, and the file is never opened.
C3_LoaderFailureLeavesFile ==
    exc = "LoaderError" =>
        /\ Failed /\ exit = 1
        /\ file = prior
        /\ handle = "none"
        /\ log = <<"load">>

C3_Witness ==
    /\ exc = "LoaderError"
    /\ prev.ok
    /\ file = prev.file
    /\ file.text # <<>>

\* C4: a run overwrites: after a successful run the file holds exactly the
\* serialization of the first record of that run, whatever it held before,
\* and a second successful run on the same loader response leaves what the
\* first left.
C4_Overwrites ==
    Done =>
        /\ file = OnDisk(JsonText(dataset[1]))
        /\ (prev.ok /\ prev.rows = dataset) => file = prev.file

C4_Witness ==
    /\ Done
    /\ prev.ok
    /\ prev.rows # dataset
    /\ prior = prev.file
    /\ prior.text # <<>>
    /\ file # prior

\* C5: in no terminal state, successful or failed, is the handle still
\* open: once acquired it has been released, with nothing left buffered.
C5_HandleReleased ==
    (Done \/ Failed) =>
        /\ handle # "open"
        /\ buf = <<>>
        /\ Len(log) > 4 => handle = "closed"

C5_Witness == Failed /\ exc = "TypeError" /\ handle = "closed"

\* C6: a run never ends in success for a record holding a value JSON has no
\* form for.
C6_NoSuccessWithoutJsonForm == Done => HasJsonForm(row)

\* the step a failed run stopped at, as an index into Steps
FailedAt ==
    CASE exc = "LoaderError" -> 1
      [] exc = "IndexError" -> 2
      [] exc = "StdoutError" -> 3
      [] exc = "OSError" /\ handle = "none" -> 4
      [] OTHER -> 6

\* C7: the exit status is 0 exactly when load, index, print, open and the
\* dump all succeeded; a failure of any of them propagates, the status is
\* non-zero, and no step after the failing one runs (only the release of an
\* opened handle).
C7_ExitStatus ==
    /\ exit = 0 <=> Done
    /\ exit = 1 <=> Failed
    /\ exc # "none" => pc \in {"close", "failed"}
    /\ Done =>
          /\ exc = "none"
          /\ log = Steps
          /\ Len(dataset) > 0
          /\ stdout = PyRepr(dataset[1]) \o <<"\n">>
          /\ file.exists
          /\ it.ok /\ it.todo = <<>>
          /\ file.text = Yield
    /\ Failed =>
          /\ exc # "none"
          /\ log = Prefix(Steps, FailedAt)

C7_Witness ==
    /\ Failed
    /\ exc = "OSError"
    /\ handle = "none"
    /\ log = <<"load", "index", "print", "open">>

HelloFile ==
    << "{", "\n",
       " ", " ", "\"", "i", "d", "\"", ":", " ", "1", ",", "\n",
       " ", " ", "\"", "t", "e", "x", "t", "\"", ":", " ",
       "\"", "h", "e", "l", "l", "o", "\"", "\n",
       "}" >>

HelloStdout ==
    << "{", "'", "i", "d", "'", ":", " ", "1", ",", " ",
       "'", "t", "e", "x", "t", "'", ":", " ",
       "'", "h", "e", "l", "l", "o", "'", "}", "\n" >>

UnicodeFile ==
    << "{", "\n",
       " ", " ", "\"", "t", "e", "x", "t", "\"", ":", " ",
       "\"", "é", "\\", "\"", "\\", "\\", "\\", "n", "\"", "\n",
       "}" >>

NestedFile ==
    << "{", "\n",
       " ", " ", "\"", "i", "d", "\"", ":", " ", "-", "1", "2", ",", "\n",
       " ", " ", "\"", "t", "e", "x", "t", "\"", ":", " ", "[", "\n",
       " ", " ", " ", " ", "n", "u", "l", "l", ",", "\n",
       " ", " ", " ", " ", "{", "\n",
       " ", " ", " ", " ", " ", " ", "\"", "i", "d", "\"", ":", " ", "0", ".", "5", "\n",
       " ", " ", " ", " ", "}", "\n",
       " ", " ", "]", "\n",
       "}" >>

\* C8: the file is a JSON object with 2-space indentation, keys in the
\* record's order and non-ASCII characters unescaped; for the record
\* {"id": 1, "text": "hello"} it is exactly the text of the scenario, with
\* no trailing newline, and standard output holds the record's rendering.
C8_Format ==
    Done =>
        /\ row = RowHello => file.text = HelloFile /\ stdout = HelloStdout
        /\ row = RowUnicode => file.text = UnicodeFile
        /\ row = RowNested => file.text = NestedFile
        /\ JsonLoad(file.text).ok
        /\ JsonLoad(file.text).val.t = "dict"
        /\ JsonLoad(file.text).val.keys = row.keys

C8_Witness == Done /\ row = RowHello /\ file.text = HelloFile

\* C9: one straight line, run once: the steps happen at most once each and
\* in the order load, index, print, open, dump, release; the file is
\* touched only after the load and the index access succeeded and the
\* record was printed; and what is dumped is the record that was printed,
\* unchanged.
C9_StraightLine ==
    /\ IsPrefix(log, Steps)
    /\ pc # "load" => Len(log) >= 1 /\ log[1] = "load"
    /\ (handle # "none" \/ file # prior) =>
          /\ Len(dataset) > 0
          /\ row = dataset[1]
          /\ stdout = PyRepr(row) \o <<"\n">>
          /\ Len(log) >= 4
    /\ pc = "write" => file.text \o buf \o Concat(it.todo) = Yield
    /\ Done => file.text = Yield

C9_Witness == Done /\ log = Steps /\ Len(dataset) = 2 /\ dataset[2] # dataset[1]

\* the dump failed with part of the text not written
FailedPartway ==
    /\ Failed
    /\ handle = "closed"
    /\ (~it.ok \/ file.text # Yield)

\* C10: once the file has been opened the earlier content is gone on every
\* path: the file holds a prefix of the new text and nothing else; a dump
\* that fails partway leaves a proper prefix of the record's text, which is
\* no JSON document; only a failure before the open leaves the file as it
\* was.
C10_FailedDumpLeavesPrefix ==
    /\ handle # "none" => file.exists /\ IsPrefix(file.text, Yield)
    /\ FailedPartway =>
          /\ ~ValidJson(file.text)
          /\ it.ok => IsProperPrefix(file.text, JsonText(row))
    /\ (Failed /\ handle = "none") => file = prior

C10_Witness ==
    /\ Failed
    /\ exc = "TypeError"
    /\ prior.text # <<>>
    /\ file.text # <<>>
    /\ ~IsPrefix(prior.text, file.text)

=============================================================================
